---- MODULE Spec2Model ----
(***************************************************************************)
(* The `generate` command of kbom: runGenerate collects five facts from    *)
(* the cluster, builds the KBOM document, and printKBOM routes it to a     *)
(* sink (stdout or a newly created file) through the json or yaml encoder. *)
(* One behaviour of Spec is one invocation of the command.                 *)
(***************************************************************************)
EXTENDS Integers, Sequences, FiniteSets, TLC

(***************************************************************************)
(* Bounds of the model.                                                    *)
(***************************************************************************)
\* longest node list the Fact Source returns
MaxNodes == 2

(***************************************************************************)
(* Program constants (the const block of the command).                     *)
(***************************************************************************)
KSOCCompany == "KSOC Labs"
BOMFormat == "ksoc"
SpecVersion == "0.1"
StdOutput == "stdout"
FileOutput == "file"
JSONFormat == "json"
YAMLFormat == "yaml"

\* number of leading characters of the digest or of the id used as file key
KeyLen == 8

(***************************************************************************)
(* Input domains: flag values and Fact Source answers.                     *)
(***************************************************************************)
Outputs == {StdOutput, FileOutput, "s3"}
Formats == {JSONFormat, YAMLFormat, "xml"}
OutPaths == {".", "/var/kbom"}

\* CA digests: empty, exactly KeyLen long, one longer, and a 16 character one
Digests == {"", "abcdef12", "abcdef123", "abcdef1234567890"}
K8sVersions == {"v1.27.1"}
NodeNames == {"node-a", "node-b"}
Locations == {[name |-> "aws", region |-> "us-east-1", zone |-> "us-east-1a"]}
ImageLists == {<<"nginx:1.25">>}
ResourceNames == {<<>>, <<"pods">>}
\* causes an external call can fail with
Causes == {"context deadline exceeded", "forbidden"}
\* values uuid.New().String() can return (36 characters each)
IDs == {"1b4e28ba-2fa1-11d2-883f-0016d3cca427", "6fa459ea-ee8a-3ca4-894e-db77e160355e"}
\* values time.Now() can return
Clocks ==
    {[Y |-> 2024, Mo |-> 1, D |-> 2, h |-> 3, m |-> 4, s |-> 5],
     [Y |-> 2025, Mo |-> 12, D |-> 31, h |-> 23, m |-> 59, s |-> 58]}

Steps == <<"Metadata", "AllNodes", "Location", "AllImages", "AllResources">>

NoErr == "nil"
ZeroTime == [Y |-> 1, Mo |-> 1, D |-> 1, h |-> 0, m |-> 0, s |-> 0]
ZeroLocation == [name |-> "", region |-> "", zone |-> ""]
NoWriter == [kind |-> "none", path |-> ""]

VARIABLES
    short, output, format, outPath,     \* the flags of the command
    pc,                                 \* position in runGenerate / printKBOM
    k8sVersion, caCertDigest, nodes, loc, allImages, resources,  \* locals
    kbom,                               \* the document
    writer,                             \* the sink returned by getWriter
    encoder,                            \* the encoder invoked: none, json, yaml
    err,                                \* the error runGenerate returns
    stdout, stdoutClosed,               \* the process's standard output
    fs, fsClosed,                       \* output directory: path -> content
    trace,                              \* the events of the run, in order
    uiPc,                               \* position of the test-runs list helpers
    specRuns, tags,                     \* uniqueTags: argument and result
    testRun, statusMap, specRunsLabel   \* testRunsStatus, calculateSpecRuns

vars == <<short, output, format, outPath, pc, k8sVersion, caCertDigest, nodes,
          loc, allImages, resources, kbom, writer, encoder, err, stdout,
          stdoutClosed, fs, fsClosed, trace, uiPc, specRuns, tags, testRun,
          statusMap, specRunsLabel>>

\* the state of the test-runs list helpers (list-utils.tsx)
ui == <<uiPc, specRuns, tags, testRun, statusMap, specRunsLabel>>

NoTestRun == [suite_runs |-> <<>>]
NoStatusMap == [k \in {} |-> 0]

flags == <<short, output, format, outPath>>
locals == <<k8sVersion, caCertDigest, nodes, loc, allImages, resources>>
sinks == <<stdout, stdoutClosed, fs, fsClosed>>


(***************************************************************************)
(* Pure helpers.                                                           *)
(***************************************************************************)
SeqsUpTo(S, n) == UNION {[1..k -> S] : k \in 0..n}

\* Go's s[:n] on a string of at least n characters
Prefix(s, n) == SubSeq(s, 1, n)

Quote(s) == "\"" \o s \o "\""

Pad2(n) == IF n < 10 THEN "0" \o ToString(n) ELSE ToString(n)

Pad4(n) ==
    IF n < 10 THEN "000" \o ToString(n)
    ELSE IF n < 100 THEN "00" \o ToString(n)
    ELSE IF n < 1000 THEN "0" \o ToString(n)
    ELSE ToString(n)

\* GeneratedAt.Format("2006-01-02-15-04-05")
FormatTime(t) ==
    Pad4(t.Y) \o "-" \o Pad2(t.Mo) \o "-" \o Pad2(t.D) \o "-" \o
    Pad2(t.h) \o "-" \o Pad2(t.m) \o "-" \o Pad2(t.s)

\* path.Join(dir, name) for a clean dir and a name without separators
PathJoin(dir, name) == IF dir = "." THEN name ELSE dir \o "/" \o name

(***************************************************************************)
(* The Fact Source (internal/kube), as runGenerate consumes it.            *)
(***************************************************************************)
Node(name, full) == [name |-> name, detail |-> IF full THEN "full" ELSE "short"]

AllNodesAnswers(full) ==
    {[i \in 1..Len(ns) |-> Node(ns[i], full)] : ns \in SeqsUpTo(NodeNames, MaxNodes)}

Resource(name, full) == [name |-> name, detail |-> IF full THEN "full" ELSE "short"]

AllResourcesAnswers(full) ==
    {[i \in 1..Len(rs) |-> Resource(rs[i], full)] : rs \in ResourceNames}

(***************************************************************************)
(* The document.                                                           *)
(***************************************************************************)
Tool ==
    [Vendor |-> KSOCCompany, BuildTime |-> "build-time", Name |-> "kbom",
     Version |-> "v0", Commit |-> "c0ffee", CommitTime |-> "commit-time"]

ZeroTool ==
    [Vendor |-> "", BuildTime |-> "", Name |-> "", Version |-> "", Commit |-> "",
     CommitTime |-> ""]

\* mutant of NewKBOM: the count is taken from the wrong list
NewKBOMCountsResources(id, now, ver, digest, ns, l, imgs, res) ==
    [ID |-> id,
     BOMFormat |-> BOMFormat,
     SpecVersion |-> SpecVersion,
     GeneratedAt |-> now,
     GeneratedBy |-> Tool,
     Cluster |->
        [Location |-> l,
         CNIVersion |-> "",
         K8sVersion |-> ver,
         CACertDigest |-> digest,
         NodesCount |-> Len(res),
         Nodes |-> ns,
         Resources |-> [Images |-> imgs, Resources |-> res]]]

\* the composite literal model.KBOM{...} of runGenerate
NewKBOM(id, now, ver, digest, ns, l, imgs, res) ==
    [ID |-> id,
     BOMFormat |-> BOMFormat,
     SpecVersion |-> SpecVersion,
     GeneratedAt |-> now,
     GeneratedBy |-> Tool,
     Cluster |->
        [Location |-> l,
         CNIVersion |-> "",
         K8sVersion |-> ver,
         CACertDigest |-> digest,
         NodesCount |-> Len(ns),
         Nodes |-> ns,
         Resources |-> [Images |-> imgs, Resources |-> res]]]

\* before the literal is evaluated there is no document
NoKBOM ==
    [ID |-> "",
     BOMFormat |-> "",
     SpecVersion |-> "",
     GeneratedAt |-> ZeroTime,
     GeneratedBy |-> ZeroTool,
     Cluster |->
        [Location |-> ZeroLocation,
         CNIVersion |-> "",
         K8sVersion |-> "",
         CACertDigest |-> "",
         NodesCount |-> 0,
         Nodes |-> <<>>,
         Resources |-> [Images |-> <<>>, Resources |-> <<>>]]]

Ev(op, ok) == [op |-> op, ok |-> ok]

(***************************************************************************)
(* The Serializer: the bytes enc.Encode(kbom) hands to the writer, as a    *)
(* sequence of lines.  json is indented by two spaces.                     *)
(***************************************************************************)
RFC3339(t) ==
    Pad4(t.Y) \o "-" \o Pad2(t.Mo) \o "-" \o Pad2(t.D) \o "T" \o
    Pad2(t.h) \o ":" \o Pad2(t.m) \o ":" \o Pad2(t.s) \o "Z"

JSONItems(xs) ==
    [i \in 1..Len(xs) |->
        "      {\"name\": " \o Quote(xs[i].name) \o ", \"detail\": " \o
        Quote(xs[i].detail) \o (IF i < Len(xs) THEN "}," ELSE "}")]

EncodeJSON(k) ==
    <<"{",
      "  \"id\": " \o Quote(k.ID) \o ",",
      "  \"bomFormat\": " \o Quote(k.BOMFormat) \o ",",
      "  \"specVersion\": " \o Quote(k.SpecVersion) \o ",",
      "  \"generatedAt\": " \o Quote(RFC3339(k.GeneratedAt)) \o ",",
      "  \"generatedBy\": {\"vendor\": " \o Quote(k.GeneratedBy.Vendor) \o
          ", \"name\": " \o Quote(k.GeneratedBy.Name) \o "},",
      "  \"cluster\": {",
      "    \"location\": {\"name\": " \o Quote(k.Cluster.Location.name) \o
          ", \"region\": " \o Quote(k.Cluster.Location.region) \o "},",
      "    \"k8sVersion\": " \o Quote(k.Cluster.K8sVersion) \o ",",
      "    \"caCertDigest\": " \o Quote(k.Cluster.CACertDigest) \o ",",
      "    \"nodesCount\": " \o ToString(k.Cluster.NodesCount) \o ",",
      "    \"nodes\": [">> \o
    JSONItems(k.Cluster.Nodes) \o
    <<"    ],",
      "    \"images\": " \o ToString(Len(k.Cluster.Resources.Images)) \o ",",
      "    \"resources\": [">> \o
    JSONItems(k.Cluster.Resources.Resources) \o
    <<"    ]",
      "  }",
      "}">>

YAMLItems(xs) ==
    [i \in 1..Len(xs) |-> "  - name: " \o xs[i].name \o ", detail: " \o xs[i].detail]

EncodeYAML(k) ==
    <<"id: " \o k.ID,
      "bomFormat: " \o k.BOMFormat,
      "specVersion: " \o Quote(k.SpecVersion),
      "generatedAt: " \o RFC3339(k.GeneratedAt),
      "generatedBy: {vendor: " \o k.GeneratedBy.Vendor \o ", name: " \o
          k.GeneratedBy.Name \o "}",
      "cluster:",
      "  location: {name: " \o k.Cluster.Location.name \o ", region: " \o
          k.Cluster.Location.region \o "}",
      "  k8sVersion: " \o k.Cluster.K8sVersion,
      "  caCertDigest: " \o k.Cluster.CACertDigest,
      "  nodesCount: " \o ToString(k.Cluster.NodesCount),
      "  nodes:">> \o
    YAMLItems(k.Cluster.Nodes) \o
    <<"  images: " \o ToString(Len(k.Cluster.Resources.Images)),
      "  resources:">> \o
    YAMLItems(k.Cluster.Resources.Resources)

(***************************************************************************)
(* The Output Router: getWriter's file name.                               *)
(***************************************************************************)
\* mutant of FileKey: the digest is used from KeyLen characters on
FileKeyAtLeast(k) ==
    IF Len(k.Cluster.CACertDigest) >= KeyLen
    THEN Prefix(k.Cluster.CACertDigest, KeyLen)
    ELSE Prefix(k.ID, KeyLen)

\* key := kbom.ID[:8]; if len(CACertDigest) > 8 { key = CACertDigest[:8] }
FileKey(k) ==
    IF Len(k.Cluster.CACertDigest) > KeyLen
    THEN Prefix(k.Cluster.CACertDigest, KeyLen)
    ELSE Prefix(k.ID, KeyLen)

\* fmt.Sprintf("kbom-%s-%s.%s", key, formattedTime, format)
FileName(k, fmt) ==
    "kbom-" \o FileKey(k) \o "-" \o FormatTime(k.GeneratedAt) \o "." \o fmt

FilePath(dir, k, fmt) == PathJoin(dir, FileName(k, fmt))

\* fmt.Errorf("output %q is not supported", output)
UnsupportedOutput(o) == "output " \o Quote(o) \o " is not supported"

\* fmt.Errorf("format %q is not supported", format)
UnsupportedFormat(f) == "format " \o Quote(f) \o " is not supported"

(***************************************************************************)
(* Initial state: the flags are parsed, nothing has run.                   *)
(***************************************************************************)
EmptyFS == [p \in {} |-> <<>>]

Init ==
    /\ short \in BOOLEAN
    /\ output \in Outputs
    /\ format \in Formats
    /\ outPath \in OutPaths
    /\ pc = "NewClient"
    /\ k8sVersion = ""
    /\ caCertDigest = ""
    /\ nodes = <<>>
    /\ loc = ZeroLocation
    /\ allImages = <<>>
    /\ resources = <<>>
    /\ kbom = NoKBOM
    /\ writer = NoWriter
    /\ encoder = "none"
    /\ err = NoErr
    /\ stdout = <<>>
    /\ stdoutClosed = FALSE
    /\ fs = EmptyFS
    /\ fsClosed = {}
    /\ trace = <<>>
    /\ uiPc = "none"
    /\ specRuns = <<>>
    /\ tags = <<>>
    /\ testRun = NoTestRun
    /\ statusMap = NoStatusMap
    /\ specRunsLabel = ""

(***************************************************************************)
(* runGenerate: the client and the five collection calls.                  *)
(***************************************************************************)
\* the statement after each call, in program order
NextPc(step) ==
    CASE step = "NewClient" -> "Metadata"
      [] step = "Metadata" -> "AllNodes"
      [] step = "AllNodes" -> "Location"
      [] step = "Location" -> "AllImages"
      [] step = "AllImages" -> "AllResources"
      [] step = "AllResources" -> "build"

\* mutant of CallFails: the failed call is issued again instead of returning
CallFailsRetry(step, cause) ==
    /\ pc = step
    /\ pc' = step
    /\ trace' = Append(trace, Ev(step, FALSE))
    /\ UNCHANGED <<ui, flags, locals, kbom, writer, encoder, err, sinks>>

\* mutant of CallFails: the error is recorded but the return is missing
CallFailsIgnored(step, cause) ==
    /\ pc = step
    /\ err' = cause
    /\ pc' = NextPc(step)
    /\ trace' = Append(trace, Ev(step, FALSE))
    /\ UNCHANGED <<ui, flags, locals, kbom, writer, encoder, sinks>>

\* if err != nil { return err }: the cause is returned as it is
CallFails(step, cause) ==
    /\ pc = step
    /\ err' = cause
    /\ pc' = "done"
    /\ trace' = Append(trace, Ev(step, FALSE))
    /\ UNCHANGED <<ui, flags, locals, kbom, writer, encoder, sinks>>

\* the call returned without error: control moves to the next statement
CallReturns(step, next) ==
    /\ pc = step
    /\ pc' = next
    /\ trace' = Append(trace, Ev(step, TRUE))
    /\ UNCHANGED <<ui, flags, kbom, writer, encoder, err, sinks>>

NewClient ==
    \/ /\ CallReturns("NewClient", "Metadata")
       /\ UNCHANGED locals
    \/ \E c \in Causes : CallFails("NewClient", c)

Metadata ==
    \/ /\ CallReturns("Metadata", "AllNodes")
       /\ k8sVersion' \in K8sVersions
       /\ caCertDigest' \in Digests
       /\ UNCHANGED <<nodes, loc, allImages, resources>>
    \/ \E c \in Causes : CallFails("Metadata", c)

AllNodes ==
    \/ /\ CallReturns("AllNodes", "Location")
       /\ nodes' \in AllNodesAnswers(~short)
       /\ UNCHANGED <<k8sVersion, caCertDigest, loc, allImages, resources>>
    \/ \E c \in Causes : CallFails("AllNodes", c)

Location ==
    \/ /\ CallReturns("Location", "AllImages")
       /\ loc' \in Locations
       /\ UNCHANGED <<k8sVersion, caCertDigest, nodes, allImages, resources>>
    \/ \E c \in Causes : CallFails("Location", c)

AllImages ==
    \/ /\ CallReturns("AllImages", "AllResources")
       /\ allImages' \in ImageLists
       /\ UNCHANGED <<k8sVersion, caCertDigest, nodes, loc, resources>>
    \/ \E c \in Causes : CallFails("AllImages", c)

\* mutant of AllResources: the error of the last call is not checked
AllResourcesUnchecked ==
    /\ pc = "AllResources"
    /\ pc' = "build"
    /\ \E ok \in BOOLEAN :
          /\ trace' = Append(trace, Ev("AllResources", ok))
          /\ resources' \in (IF ok THEN AllResourcesAnswers(~short) ELSE {<<>>})
    /\ UNCHANGED <<ui, flags, kbom, writer, encoder, err, sinks>>
    /\ UNCHANGED <<k8sVersion, caCertDigest, nodes, loc, allImages>>

AllResources ==
    \/ /\ CallReturns("AllResources", "build")
       /\ resources' \in AllResourcesAnswers(~short)
       /\ UNCHANGED <<k8sVersion, caCertDigest, nodes, loc, allImages>>
    \/ \E c \in Causes : CallFails("AllResources", c)

Reverse(xs) == [i \in 1..Len(xs) |-> xs[Len(xs) + 1 - i]]

\* mutant of BuildKBOM: the node list is put into the document in another order
BuildKBOMReordered ==
    /\ pc = "build"
    /\ \E id \in IDs, now \in Clocks :
          kbom' = NewKBOM(id, now, k8sVersion, caCertDigest, Reverse(nodes), loc,
                          allImages, resources)
    /\ trace' = trace \o <<Ev("uuid.New", TRUE), Ev("time.Now", TRUE)>>
    /\ pc' = "getWriter"
    /\ UNCHANGED <<ui, flags, locals, writer, encoder, err, sinks>>

\* kbom := model.KBOM{ID: uuid.New().String(), ..., GeneratedAt: time.Now(), ...}
BuildKBOM ==
    /\ pc = "build"
    /\ \E id \in IDs, now \in Clocks :
          kbom' = NewKBOM(id, now, k8sVersion, caCertDigest, nodes, loc,
                          allImages, resources)
    /\ trace' = trace \o <<Ev("uuid.New", TRUE), Ev("time.Now", TRUE)>>
    /\ pc' = "getWriter"
    /\ UNCHANGED <<ui, flags, locals, writer, encoder, err, sinks>>

(***************************************************************************)
(* getWriter: the sink for the output flag.                                *)
(***************************************************************************)
CreateCauses == {"permission denied"}
WriteCauses == {"no space left on device"}

\* mutant of GetWriterStdout: a file is created although stdout is the sink
GetWriterStdoutAndFile ==
    /\ pc = "getWriter"
    /\ output = StdOutput
    /\ writer' = [kind |-> "stdout", path |-> ""]
    /\ fs' = [q \in DOMAIN fs \cup {FilePath(outPath, kbom, format)} |->
                IF q \in DOMAIN fs THEN fs[q] ELSE <<>>]
    /\ pc' = "switch"
    /\ trace' = trace \o <<Ev("os.Create", TRUE), Ev("getWriter", TRUE)>>
    /\ UNCHANGED <<ui, flags, locals, kbom, encoder, err, stdout, stdoutClosed, fsClosed>>

\* case StdOutput: return os.Stdout, nil
GetWriterStdout ==
    /\ pc = "getWriter"
    /\ output = StdOutput
    /\ writer' = [kind |-> "stdout", path |-> ""]
    /\ pc' = "switch"
    /\ trace' = Append(trace, Ev("getWriter", TRUE))
    /\ UNCHANGED <<ui, flags, locals, kbom, encoder, err, sinks>>

\* mutant of GetWriterFile: the format is validated before the file is created
GetWriterFileValidated ==
    /\ pc = "getWriter"
    /\ output = FileOutput
    /\ LET p == FilePath(outPath, kbom, format) IN
          IF format \notin {JSONFormat, YAMLFormat}
          THEN /\ err' = UnsupportedFormat(format)
               /\ pc' = "done"
               /\ trace' = Append(trace, Ev("getWriter", FALSE))
               /\ UNCHANGED <<ui, flags, locals, kbom, writer, encoder, sinks>>
          ELSE /\ fs' = [q \in DOMAIN fs \cup {p} |-> IF q = p THEN <<>> ELSE fs[q]]
               /\ fsClosed' = fsClosed \ {p}
               /\ writer' = [kind |-> "file", path |-> p]
               /\ pc' = "switch"
               /\ trace' = trace \o <<Ev("os.Create", TRUE), Ev("getWriter", TRUE)>>
               /\ UNCHANGED <<ui, flags, locals, kbom, encoder, err, stdout, stdoutClosed>>

\* case FileOutput: os.Create(path.Join(outPath, name)) creates or truncates
GetWriterFile ==
    /\ pc = "getWriter"
    /\ output = FileOutput
    /\ LET p == FilePath(outPath, kbom, format) IN
          \/ /\ fs' = [q \in DOMAIN fs \cup {p} |-> IF q = p THEN <<>> ELSE fs[q]]
             /\ fsClosed' = fsClosed \ {p}
             /\ writer' = [kind |-> "file", path |-> p]
             /\ pc' = "switch"
             /\ trace' = trace \o <<Ev("os.Create", TRUE), Ev("getWriter", TRUE)>>
             /\ UNCHANGED <<ui, flags, locals, kbom, encoder, err, stdout, stdoutClosed>>
          \/ \E c \in CreateCauses :
                /\ err' = c
                /\ pc' = "done"
                /\ trace' = trace \o <<Ev("os.Create", FALSE), Ev("getWriter", FALSE)>>
                /\ UNCHANGED <<ui, flags, locals, kbom, writer, encoder, sinks>>

\* mutant of GetWriterDefault: an unknown output falls back to stdout
GetWriterDefaultStdout ==
    /\ pc = "getWriter"
    /\ output \notin {StdOutput, FileOutput}
    /\ writer' = [kind |-> "stdout", path |-> ""]
    /\ pc' = "switch"
    /\ trace' = Append(trace, Ev("getWriter", TRUE))
    /\ UNCHANGED <<ui, flags, locals, kbom, encoder, err, sinks>>

\* default: return nil, fmt.Errorf("output %q is not supported", output)
GetWriterDefault ==
    /\ pc = "getWriter"
    /\ output \notin {StdOutput, FileOutput}
    /\ err' = UnsupportedOutput(output)
    /\ pc' = "done"
    /\ trace' = Append(trace, Ev("getWriter", FALSE))
    /\ UNCHANGED <<ui, flags, locals, kbom, writer, encoder, sinks>>

(***************************************************************************)
(* printKBOM: defer writer.Close(), then the switch on the format flag.    *)
(***************************************************************************)
\* writer.Write(bytes)
WriteTo(w, bytes) ==
    IF w.kind = "stdout"
    THEN /\ stdout' = stdout \o bytes
         /\ UNCHANGED fs
    ELSE /\ fs' = [fs EXCEPT ![w.path] = @ \o bytes]
         /\ UNCHANGED stdout

\* enc.Encode(kbom): all the bytes reach the writer, or a write fails after a
\* proper prefix of them and the error is returned
EncodeWith(name, bytes) ==
    /\ encoder' = name
    /\ pc' = "defer"
    /\ \/ /\ WriteTo(writer, bytes)
          /\ trace' = Append(trace, Ev("Encode", TRUE))
          /\ UNCHANGED err
       \/ \E n \in 0..(Len(bytes) - 1), c \in WriteCauses :
             /\ WriteTo(writer, SubSeq(bytes, 1, n))
             /\ trace' = Append(trace, Ev("Encode", FALSE))
             /\ err' = c
    /\ UNCHANGED <<ui, flags, locals, writer, stdoutClosed, fsClosed>>

\* case JSONFormat
SwitchJSON ==
    /\ pc = "switch"
    /\ format = JSONFormat
    /\ EncodeWith("json", EncodeJSON(kbom))
    /\ UNCHANGED kbom

\* mutant of SwitchYAML: generatedAt is stamped again when the document is encoded
SwitchYAMLRestamp ==
    /\ pc = "switch"
    /\ format = YAMLFormat
    /\ \E now \in Clocks : kbom' = [kbom EXCEPT !.GeneratedAt = now]
    /\ EncodeWith("yaml", EncodeYAML(kbom'))

\* case YAMLFormat
SwitchYAML ==
    /\ pc = "switch"
    /\ format = YAMLFormat
    /\ EncodeWith("yaml", EncodeYAML(kbom))
    /\ UNCHANGED kbom

\* mutant of SwitchDefault: an unknown format falls through to the json encoder
SwitchDefaultAsJSON ==
    /\ pc = "switch"
    /\ format \notin {JSONFormat, YAMLFormat}
    /\ EncodeWith("json", EncodeJSON(kbom))
    /\ UNCHANGED kbom

\* default: return fmt.Errorf("format %q is not supported", format)
SwitchDefault ==
    /\ pc = "switch"
    /\ format \notin {JSONFormat, YAMLFormat}
    /\ err' = UnsupportedFormat(format)
    /\ pc' = "defer"
    /\ trace' = Append(trace, Ev("switch", FALSE))
    /\ UNCHANGED <<ui, flags, locals, kbom, writer, encoder, sinks>>

\* mutant of DeferredClose: no defer, the writer is closed on the success path only
CloseOnSuccessOnly ==
    /\ pc = "defer"
    /\ IF err # NoErr
       THEN UNCHANGED <<stdoutClosed, fsClosed>>
       ELSE IF writer.kind = "stdout"
            THEN /\ stdoutClosed' = TRUE
                 /\ UNCHANGED fsClosed
            ELSE /\ fsClosed' = fsClosed \cup {writer.path}
                 /\ UNCHANGED stdoutClosed
    /\ pc' = "done"
    /\ trace' = IF err # NoErr THEN trace ELSE Append(trace, Ev("Close", TRUE))
    /\ UNCHANGED <<ui, flags, locals, kbom, writer, encoder, err, stdout, fs>>

\* the deferred writer.Close() runs when printKBOM returns, on every path
\* after the defer statement; its result is dropped
DeferredClose ==
    /\ pc = "defer"
    /\ IF writer.kind = "stdout"
       THEN /\ stdoutClosed' = TRUE
            /\ UNCHANGED fsClosed
       ELSE /\ fsClosed' = fsClosed \cup {writer.path}
            /\ UNCHANGED stdoutClosed
    /\ pc' = "done"
    /\ trace' = Append(trace, Ev("Close", TRUE))
    /\ UNCHANGED <<ui, flags, locals, kbom, writer, encoder, err, stdout, fs>>

Next ==
    \/ NewClient
    \/ Metadata
    \/ AllNodes
    \/ Location
    \/ AllImages
    \/ AllResources
    \/ BuildKBOM
    \/ GetWriterStdout
    \/ GetWriterFile
    \/ GetWriterDefault
    \/ SwitchJSON
    \/ SwitchYAML
    \/ SwitchDefault
    \/ DeferredClose

Spec == Init /\ [][Next]_vars

(***************************************************************************)
(* Vocabulary of the properties, read off the events of the run.           *)
(***************************************************************************)
StepSet == {Steps[i] : i \in DOMAIN Steps}

Issued(op) == \E i \in DOMAIN trace : trace[i].op = op

Returned(op) == \E i \in DOMAIN trace : trace[i] = Ev(op, TRUE)

Failed(op) == \E i \in DOMAIN trace : trace[i] = Ev(op, FALSE)

AllFiveSucceeded == \A st \in StepSet : Returned(st)

CollectionFailed == \E st \in StepSet : Failed(st)

Count(op) == Cardinality({i \in DOMAIN trace : trace[i].op = op})

\* every event op in the trace comes after a successful return of each of before
After(op, before) ==
    \A i \in DOMAIN trace :
        trace[i].op = op =>
            \A b \in before : \E j \in 1..(i - 1) : trace[j] = Ev(b, TRUE)

NoFileBytes == \A p \in DOMAIN fs : fs[p] = <<>>

NoBytes == stdout = <<>> /\ NoFileBytes

Closed(w) == IF w.kind = "stdout" THEN stdoutClosed ELSE w.path \in fsClosed

SupportedFormat == format \in {JSONFormat, YAMLFormat}

SupportedOutput == output \in {StdOutput, FileOutput}

(***************************************************************************)
(* C1: the json/yaml encoder is invoked only after all five Fact Source    *)
(* calls (Metadata, AllNodes, Location, AllImages, AllResources) have      *)
(* returned successfully; a run in which one of the five calls failed      *)
(* never invokes an encoder and never writes a byte of a document.         *)
(***************************************************************************)
C1_SerializerOnlyAfterCollection ==
    /\ encoder # "none" => AllFiveSucceeded
    /\ After("Encode", StepSet)
    /\ CollectionFailed => encoder = "none" /\ ~Issued("Encode") /\ NoBytes

\* a run that encoded a two-node document to stdout after the five calls returned
C1_Witness ==
    /\ pc = "done"
    /\ encoder = "json"
    /\ AllFiveSucceeded
    /\ stdout = EncodeJSON(kbom)
    /\ Len(nodes) = 2

(***************************************************************************)
(* C2: if any one of the five collection calls fails, the run aborts       *)
(* before any sink is touched: getWriter is never called, no file is       *)
(* created in the output directory and no bytes are written to stdout,     *)
(* for every output target and every format value.                         *)
(***************************************************************************)
C2_CollectionFailureTouchesNoSink ==
    CollectionFailed =>
        /\ ~Issued("getWriter")
        /\ ~Issued("os.Create")
        /\ writer = NoWriter
        /\ DOMAIN fs = {}
        /\ stdout = <<>>
        /\ ~stdoutClosed

\* the third call failed in file mode, the run is over
C2_Witness ==
    /\ pc = "done"
    /\ Failed("Location")
    /\ output = FileOutput
    /\ format = YAMLFormat
    /\ err \in Causes

(***************************************************************************)
(* C3: when the output target is stdout, the run never closes the          *)
(* process's standard output: on no exit path of printKBOM is Close        *)
(* invoked on the stdout sink.                                             *)
(***************************************************************************)
C3_StdoutNeverClosed ==
    output = StdOutput => ~stdoutClosed

C4_StampedOnce ==
    /\ After("uuid.New", StepSet)
    /\ After("time.Now", StepSet)
    /\ After("getWriter", {"uuid.New", "time.Now"})
    /\ Count("uuid.New") <= 1
    /\ Count("time.Now") <= 1
    /\ Issued("uuid.New") <=> kbom.ID # NoKBOM.ID
    /\ Issued("time.Now") <=> kbom.GeneratedAt # NoKBOM.GeneratedAt

C4_NeverRestamped ==
    kbom.ID # NoKBOM.ID =>
        /\ kbom'.ID = kbom.ID
        /\ kbom'.GeneratedAt = kbom.GeneratedAt

C5_NodesCountIsLen ==
    pc \in {"getWriter", "switch", "defer"} \/ Issued("getWriter") =>
        /\ kbom.Cluster.Nodes = nodes
        /\ kbom.Cluster.NodesCount = Len(kbom.Cluster.Nodes)

\* a short-mode document with two nodes and one resource is at getWriter
C5_Witness ==
    /\ pc = "getWriter"
    /\ short
    /\ Len(kbom.Cluster.Nodes) = 2
    /\ Len(kbom.Cluster.Resources.Resources) = 1
    /\ kbom.Cluster.NodesCount = 2

(***************************************************************************)
(* C6: every sink a run opens is released on every exit path of printKBOM  *)
(* (successful encode, encode failure mid-stream, unsupported format), and *)
(* the release comes only after serialization has finished: no byte is     *)
(* written to a sink after it is closed.                                   *)
(***************************************************************************)
C6_ReleasedAtExit ==
    /\ pc = "done" /\ writer # NoWriter => Closed(writer) /\ Issued("Close")
    /\ pc = "done" => fsClosed = DOMAIN fs
    /\ \A i \in DOMAIN trace :
          trace[i].op = "Close" =>
              /\ i = Len(trace)
              /\ \E j \in 1..(i - 1) : trace[j].op \in {"Encode", "switch"}

C6_NoWriteAfterClose ==
    /\ stdoutClosed => stdout' = stdout
    /\ \A p \in fsClosed : p \in DOMAIN fs' /\ fs'[p] = fs[p]

C6_SinkReleased ==
    [](C6_ReleasedAtExit) /\ [][C6_NoWriteAfterClose]_vars

\* the encoder failed after part of the document reached the file, which is closed
C6_Witness ==
    /\ pc = "done"
    /\ writer.kind = "file"
    /\ Failed("Encode")
    /\ err \in WriteCauses
    /\ Len(fs[writer.path]) > 0
    /\ writer.path \in fsClosed

(***************************************************************************)
(* C7, as stated: for every format value other than json and yaml the run  *)
(* fails with the unsupported-format error, no bytes at all are written to *)
(* the sink (stdout or file) and no encoder is invoked.                    *)
(***************************************************************************)
C7_UnsupportedFormatError ==
    pc = "done" /\ ~SupportedFormat =>
        /\ err = UnsupportedFormat(format)
        /\ NoBytes
        /\ encoder = "none"

(***************************************************************************)
(* C7, amended: for every format value other than json and yaml the run    *)
(* fails, no bytes at all are written to the sink (stdout or file) and no  *)
(* encoder is invoked; the error is the unsupported-format error exactly   *)
(* when getWriter returned a sink (the client and the five collection      *)
(* calls succeeded, the output target is stdout or a file that could be    *)
(* created), and the error of the earlier failing step otherwise.          *)
(***************************************************************************)
C7_UnsupportedFormatFails ==
    ~SupportedFormat =>
        /\ NoBytes
        /\ encoder = "none"
        /\ ~Issued("Encode")
        /\ pc = "done" => err # NoErr
        /\ pc = "done" => (err = UnsupportedFormat(format) <=> Returned("getWriter"))

\* format xml on stdout: the switch reported the format, nothing was written
C7_Witness ==
    /\ pc = "done"
    /\ format = "xml"
    /\ output = StdOutput
    /\ err = UnsupportedFormat("xml")
    /\ stdout = <<>>

(***************************************************************************)
(* C8, as stated: for every output target other than stdout and file the   *)
(* run fails with the unsupported-output error, no file is created and no  *)
(* encoder is invoked, whatever the format value is.                       *)
(***************************************************************************)
C8_UnsupportedOutputError ==
    pc = "done" /\ ~SupportedOutput =>
        /\ err = UnsupportedOutput(output)
        /\ DOMAIN fs = {}
        /\ encoder = "none"

(***************************************************************************)
(* C8, amended: for every output target other than stdout and file the run *)
(* fails, no file is created and no encoder is invoked, whatever the       *)
(* format value is; the error is the unsupported-output error exactly when *)
(* the client and all five collection calls succeeded, and the error of    *)
(* the failing call otherwise.                                             *)
(***************************************************************************)
C8_UnsupportedOutputFails ==
    ~SupportedOutput =>
        /\ DOMAIN fs = {}
        /\ ~Issued("os.Create")
        /\ encoder = "none"
        /\ writer = NoWriter
        /\ pc = "done" => err # NoErr
        /\ pc = "done" => (err = UnsupportedOutput(output) <=> AllFiveSucceeded)

\* output s3 with a supported format: getWriter refused, nothing was created
C8_Witness ==
    /\ pc = "done"
    /\ output = "s3"
    /\ format = JSONFormat
    /\ AllFiveSucceeded
    /\ Failed("getWriter")
    /\ err = UnsupportedOutput("s3")

(***************************************************************************)
(* C9: every file a run creates in the output directory has the extension  *)
(* json or yaml, matching the format flag: for all combinations of output  *)
(* target and format value no file with another extension is created.      *)
(***************************************************************************)
DotPositions(str) == {i \in 1..Len(str) : SubSeq(str, i, i) = "."}

LastDot(str) == CHOOSE i \in DotPositions(str) : \A j \in DotPositions(str) : j <= i

\* the text after the last dot of the name
Ext(str) ==
    IF DotPositions(str) = {} THEN "" ELSE SubSeq(str, LastDot(str) + 1, Len(str))

C9_ExtensionIsJSONOrYAML ==
    \A p \in DOMAIN fs :
        /\ Ext(p) \in {JSONFormat, YAMLFormat}
        /\ Ext(p) = format

(***************************************************************************)
(* C10: in file mode the created file is named                             *)
(* kbom-<fingerprint8>-<timestamp>.<ext>: fingerprint8 is the first 8      *)
(* characters of caCertDigest when the digest is strictly longer than 8,   *)
(* and the first 8 characters of id otherwise (a digest of exactly 8       *)
(* characters and the empty digest included); timestamp is generatedAt as  *)
(* YYYY-MM-DD-HH-MM-SS; ext is the format.  The name depends on id,        *)
(* caCertDigest, generatedAt and format only; digest abcdef1234567890      *)
(* gives fingerprint abcdef12.                                             *)
(***************************************************************************)
C10_Fingerprint ==
    CASE kbom.Cluster.CACertDigest = "" -> SubSeq(kbom.ID, 1, 8)
      [] Len(kbom.Cluster.CACertDigest) \in 1..8 -> SubSeq(kbom.ID, 1, 8)
      [] OTHER -> SubSeq(kbom.Cluster.CACertDigest, 1, 8)

C10_Timestamp ==
    IF kbom.GeneratedAt = [Y |-> 2024, Mo |-> 1, D |-> 2, h |-> 3, m |-> 4, s |-> 5]
    THEN "2024-01-02-03-04-05"
    ELSE "2025-12-31-23-59-58"

C10_Directory == IF outPath = "." THEN "" ELSE outPath \o "/"

C10_FileName ==
    /\ \A p \in DOMAIN fs :
          p = C10_Directory \o "kbom-" \o C10_Fingerprint \o "-" \o C10_Timestamp
                 \o "." \o format
    /\ Returned("os.Create") => DOMAIN fs # {}
    /\ Returned("os.Create") /\ kbom.Cluster.CACertDigest = "abcdef1234567890"
          /\ C10_Timestamp = "2024-01-02-03-04-05" /\ format = JSONFormat
          /\ outPath = "."
       => DOMAIN fs = {"kbom-abcdef12-2024-01-02-03-04-05.json"}

\* a digest of exactly 8 characters: the file is named after the id
C10_Witness ==
    /\ Returned("os.Create")
    /\ kbom.Cluster.CACertDigest = "abcdef12"
    /\ kbom.ID = "6fa459ea-ee8a-3ca4-894e-db77e160355e"
    /\ format = YAMLFormat
    /\ DOMAIN fs = {"/var/kbom/kbom-6fa459ea-2025-12-31-23-59-58.yaml"}

(***************************************************************************)
(* C11: a run is all-or-nothing: it succeeds with exactly one complete     *)
(* encoded document on the chosen sink, or it fails and leaves no document *)
(* bytes behind (at most an empty file); a run that fails during encoding  *)
(* leaves no partially written document in the sink.                       *)
(***************************************************************************)
SinkBytes ==
    CASE writer.kind = "stdout" -> stdout
      [] writer.kind = "file" -> fs[writer.path]
      [] OTHER -> <<>>

Encoded(k) == IF format = JSONFormat THEN EncodeJSON(k) ELSE EncodeYAML(k)

C11_AllOrNothing ==
    pc = "done" =>
        \/ err = NoErr /\ writer # NoWriter /\ SinkBytes = Encoded(kbom)
        \/ err # NoErr /\ NoBytes

(***************************************************************************)
(* C12: when a collection call fails, the error the run returns names the  *)
(* collection step that failed and wraps the underlying cause, so that two *)
(* steps failing with the same cause give distinguishable errors.          *)
(***************************************************************************)
Contains(str, sub) ==
    \E i \in 1..(Len(str) - Len(sub) + 1) : SubSeq(str, i, i + Len(sub) - 1) = sub

C12_ErrorNamesStep ==
    pc = "done" =>
        \A st \in StepSet :
            Failed(st) =>
                /\ Contains(err, st)
                /\ \E c \in Causes : Contains(err, c)

(***************************************************************************)
(* C13: two runs given identical Fact Source responses, identical detail   *)
(* mode, identical format and identical clock value write byte-identical   *)
(* encoded output to the sink, except for the value of the id field.       *)
(* Stated for one run: what the sink holds, the id line masked, is the     *)
(* encoding of a document that is built from the responses, the clock      *)
(* value and the format alone, up to the point where the sink stopped      *)
(* accepting bytes.                                                        *)
(***************************************************************************)
IdLine == IF format = JSONFormat THEN 2 ELSE 1

MaskId(bytes) == [i \in DOMAIN bytes |-> IF i = IdLine THEN "<id>" ELSE bytes[i]]

C13_FromResponses ==
    MaskId(Encoded(NewKBOM("", kbom.GeneratedAt, k8sVersion, caCertDigest, nodes,
                           loc, allImages, resources)))

IsCall(e) == e.op \in StepSet

Calls == SelectSeq(trace, IsCall)

C14_FixedOrderNoRetry ==
    /\ Len(Calls) <= Len(Steps)
    /\ \A i \in DOMAIN Calls :
          /\ Calls[i].op = Steps[i]
          /\ ~Calls[i].ok => i = Len(Calls)
    /\ \A st \in StepSet : Count(st) <= 1
    /\ pc \in StepSet => \A i \in DOMAIN Calls : Calls[i].ok /\ Steps[Len(Calls) + 1] = pc

\* the fourth call failed: three calls returned before it, none was issued after
C14_Witness ==
    /\ pc = "done"
    /\ Len(Calls) = 4
    /\ Failed("AllImages")
    /\ ~Issued("AllResources")

(***************************************************************************)
(* C15: with output target file and a format that is neither json nor      *)
(* yaml, the file is created in the output directory before the            *)
(* unsupported-format error is detected, because getWriter runs before the *)
(* format switch; the run then fails and the created file is left behind   *)
(* empty.                                                                  *)
(***************************************************************************)
C15_EmptyFileLeftBehind ==
    output = FileOutput /\ ~SupportedFormat =>
        /\ After("switch", {"os.Create", "getWriter"})
        /\ Issued("switch") => DOMAIN fs = {FilePath(outPath, kbom, format)}
        /\ NoFileBytes
        /\ pc = "done" => err # NoErr
        /\ pc = "done" /\ AllFiveSucceeded /\ ~Failed("os.Create") =>
              /\ err = UnsupportedFormat(format)
              /\ DOMAIN fs = {FilePath(outPath, kbom, format)}
              /\ fs[FilePath(outPath, kbom, format)] = <<>>

\* format xml in file mode: the run failed on the format and the empty file exists
C15_Witness ==
    /\ pc = "done"
    /\ output = FileOutput
    /\ format = "xml"
    /\ err = UnsupportedFormat("xml")
    /\ fs = [p \in {FilePath(outPath, kbom, "xml")} |-> <<>>]
    /\ fsClosed = DOMAIN fs

(***************************************************************************)
(* The stage of a run.  The stages carry the names of the state machine    *)
(* Idle, Assembling, Assembled, SinkOpen, Serialized, Closed, Error; a     *)
(* stage is the step the run has reached, so that a failure of getWriter   *)
(* leaves SinkOpen and a failure of the encoder leaves Serialized:         *)
(*   Idle        nothing has been called yet                               *)
(*   Assembling  the collection calls                                      *)
(*   Assembled   the five calls returned, the document is built            *)
(*   SinkOpen    getWriter                                                 *)
(*   Serialized  the format switch and the encoder                         *)
(*   Closed      the deferred Close and the successful return              *)
(*   Error       an error has been recorded                                *)
(***************************************************************************)
Phase ==
    IF err # NoErr THEN "Error"
    ELSE CASE pc = "NewClient" -> "Idle"
           [] pc \in StepSet -> "Assembling"
           [] pc = "build" -> "Assembled"
           [] pc = "getWriter" -> "SinkOpen"
           [] pc = "switch" -> "Serialized"
           [] pc \in {"defer", "done"} -> "Closed"

ForwardEdges ==
    {<<"Idle", "Assembling">>, <<"Assembling", "Assembled">>,
     <<"Assembled", "SinkOpen">>, <<"SinkOpen", "Serialized">>,
     <<"Serialized", "Closed">>}

ErrorEdges(from) == {<<ph, "Error">> : ph \in from}

NewEvents == SubSeq(trace', Len(trace) + 1, Len(trace'))

\* after an error: no collection call, no sink opened, no byte written
QuietAfterError ==
    err # NoErr =>
        /\ \A i \in DOMAIN NewEvents :
              NewEvents[i].op \notin StepSet \cup {"getWriter", "os.Create", "Encode"}
        /\ stdout' = stdout
        /\ fs' = fs
        /\ err' = err

(***************************************************************************)
(* C16, as stated: a run moves only forward along Idle, Assembling,        *)
(* Assembled, SinkOpen, Serialized, Closed with no back edge; Error is     *)
(* entered only from Assembling (a collection call failed), from SinkOpen  *)
(* (opening the sink failed) or from Serialized (encoding failed); once an *)
(* error has occurred the run issues no further collection call, opens no  *)
(* sink and writes no document bytes.                                      *)
(***************************************************************************)
C16_StepAsStated ==
    /\ Phase' # Phase =>
          <<Phase, Phase'>> \in
              ForwardEdges \cup ErrorEdges({"Assembling", "SinkOpen", "Serialized"})
    /\ QuietAfterError

C16_StateMachineAsStated == [][C16_StepAsStated]_vars

(***************************************************************************)
(* C16, amended: a run moves only forward along Idle, Assembling,          *)
(* Assembled, SinkOpen, Serialized, Closed with no back edge; Error is     *)
(* entered only from Idle (creating the client failed), from Assembling (a *)
(* collection call failed), from SinkOpen (opening the sink failed: the    *)
(* output is unsupported or the file cannot be created) or from Serialized *)
(* (the format is unsupported or encoding failed); once an error has       *)
(* occurred the run issues no further collection call, opens no sink and   *)
(* writes no document bytes (a sink already open is still closed).         *)
(***************************************************************************)
C16_Step ==
    /\ Phase' # Phase =>
          <<Phase, Phase'>> \in
              ForwardEdges \cup
              ErrorEdges({"Idle", "Assembling", "SinkOpen", "Serialized"})
    /\ Phase' = "Error" /\ Phase # "Error" =>
          CASE Phase = "Idle" -> NewEvents = <<Ev("NewClient", FALSE)>>
            [] Phase = "Assembling" ->
                  Len(NewEvents) = 1 /\ NewEvents[1].op \in StepSet /\ ~NewEvents[1].ok
            [] Phase = "SinkOpen" -> NewEvents[Len(NewEvents)] = Ev("getWriter", FALSE)
            [] Phase = "Serialized" ->
                  NewEvents \in {<<Ev("Encode", FALSE)>>, <<Ev("switch", FALSE)>>}
            [] OTHER -> FALSE
    /\ QuietAfterError

C16_StateMachine == [][C16_Step]_vars

\* the encoder failed in Serialized, and the sink was closed afterwards
C16_Witness ==
    /\ pc = "done"
    /\ Phase = "Error"
    /\ Failed("Encode")
    /\ trace[Len(trace)] = Ev("Close", TRUE)

(***************************************************************************)
(* C17: when the output target is stdout, no run creates or modifies a     *)
(* file in the output directory, whatever the format value, the out-path   *)
(* value and the outcome of the run are.                                   *)
(***************************************************************************)
C17_StdoutTouchesNoFile ==
    output = StdOutput =>
        /\ fs = EmptyFS
        /\ fsClosed = {}
        /\ ~Issued("os.Create")
        /\ writer.kind # "file"

\* a yaml document went to stdout with an out-path set: the directory is untouched
C17_Witness ==
    /\ pc = "done"
    /\ output = StdOutput
    /\ outPath = "/var/kbom"
    /\ stdout = EncodeYAML(kbom)
    /\ stdoutClosed
    /\ DOMAIN fs = {}

(***************************************************************************)
(* The test-runs list helpers: uniqueTags, testRunsStatus and              *)
(* calculateSpecRuns are pure functions of their argument.  SpecUI draws   *)
(* the argument from bounded sets and applies them.                        *)
(***************************************************************************)
\* most tags on one spec run
MaxTags == 2
\* most spec runs in one list (the argument of uniqueTags, one suite run)
MaxSpecRuns == 2
\* most suite runs in one test run
MaxSuiteRuns == 2

\* ITag values: two different objects share id 1
TagPool ==
    {[id |-> 1, name |-> "smoke"], [id |-> 1, name |-> "smoke-renamed"],
     [id |-> 2, name |-> "api"]}

\* ISpecRun.status values: the three that are counted and one that is not
Statuses == {"passed", "failed", "skipped", "pending"}

TaggedSpecRuns == {[status |-> "passed", tags |-> ts] : ts \in SeqsUpTo(TagPool, MaxTags)}

SpecRunLists == SeqsUpTo(TaggedSpecRuns, MaxSpecRuns)

PlainSpecRuns == {[status |-> st, tags |-> <<>>] : st \in Statuses}

SuiteRuns ==
    {[suite_name |-> "suite", spec_runs |-> rs] : rs \in SeqsUpTo(PlainSpecRuns, MaxSpecRuns)}

TestRuns == {[suite_runs |-> ss] : ss \in SeqsUpTo(SuiteRuns, MaxSuiteRuns)}

\* specRun.tags.forEach(tag => { if (!tags.some(t => t.name === tag.name)) ... })
RECURSIVE PushNewTagsByName(_, _)
PushNewTagsByName(acc, ts) ==
    IF ts = <<>> THEN acc
    ELSE PushNewTagsByName(
            IF \E i \in DOMAIN acc : acc[i].name = Head(ts).name
            THEN acc
            ELSE Append(acc, Head(ts)),
            Tail(ts))

RECURSIVE ForEachSpecRunByName(_, _)
ForEachSpecRunByName(acc, runs) ==
    IF runs = <<>> THEN acc
    ELSE ForEachSpecRunByName(PushNewTagsByName(acc, Head(runs).tags), Tail(runs))

\* mutant of uniqueTags: tags are compared by name instead of by id
uniqueTagsByName(runs) == ForEachSpecRunByName(<<>>, runs)

\* specRun.tags.forEach(tag => { if (!tags.some(t => t.id === tag.id)) tags.push(tag) })
RECURSIVE PushNewTags(_, _)
PushNewTags(acc, ts) ==
    IF ts = <<>> THEN acc
    ELSE PushNewTags(
            IF \E i \in DOMAIN acc : acc[i].id = Head(ts).id
            THEN acc
            ELSE Append(acc, Head(ts)),
            Tail(ts))

\* specRuns.forEach(specRun => ...)
RECURSIVE ForEachSpecRun(_, _)
ForEachSpecRun(acc, runs) ==
    IF runs = <<>> THEN acc
    ELSE ForEachSpecRun(PushNewTags(acc, Head(runs).tags), Tail(runs))

uniqueTags(runs) == ForEachSpecRun(<<>>, runs)

\* testRun.suite_runs.flatMap(suiteRun => suiteRun.spec_runs)
RECURSIVE FlatMapSpecRuns(_)
FlatMapSpecRuns(suites) ==
    IF suites = <<>> THEN <<>>
    ELSE Head(suites).spec_runs \o FlatMapSpecRuns(Tail(suites))

HasStatus(st, run) == run.status = st

\* .filter(specRun => specRun.status === st).length
CountWithStatus(t, st) ==
    LET all == FlatMapSpecRuns(t.suite_runs) IN
    Cardinality({i \in DOMAIN all : HasStatus(st, all[i])})

\* .filter(specRun => specRun.status !== st).length
CountWithoutStatus(t, st) ==
    LET all == FlatMapSpecRuns(t.suite_runs) IN
    Cardinality({i \in DOMAIN all : ~HasStatus(st, all[i])})

\* the Map with the three keys set in turn
testRunsStatus(t) ==
    [k \in {"passed", "failed", "skipped"} |-> CountWithStatus(t, k)]

\* mutant of calculateSpecRuns: the total is taken without the filter
calculateSpecRunsUnfiltered(t) ==
    ToString(CountWithStatus(t, "passed")) \o "/" \o
    ToString(Len(FlatMapSpecRuns(t.suite_runs)))

\* `${passedSpecRuns}/${totalSpecRuns}`
calculateSpecRuns(t) ==
    ToString(CountWithStatus(t, "passed")) \o "/" \o
    ToString(CountWithoutStatus(t, "skipped"))

\* the kbom command is not part of this program
GoOff ==
    /\ short = FALSE
    /\ output = StdOutput
    /\ format = JSONFormat
    /\ outPath = "."
    /\ pc = "off"
    /\ k8sVersion = ""
    /\ caCertDigest = ""
    /\ nodes = <<>>
    /\ loc = ZeroLocation
    /\ allImages = <<>>
    /\ resources = <<>>
    /\ kbom = NoKBOM
    /\ writer = NoWriter
    /\ encoder = "none"
    /\ err = NoErr
    /\ stdout = <<>>
    /\ stdoutClosed = FALSE
    /\ fs = EmptyFS
    /\ fsClosed = {}
    /\ trace = <<>>

go == <<short, output, format, outPath, pc, k8sVersion, caCertDigest, nodes, loc,
        allImages, resources, kbom, writer, encoder, err, stdout, stdoutClosed,
        fs, fsClosed, trace>>

InitUI ==
    /\ GoOff
    /\ tags = <<>>
    /\ statusMap = NoStatusMap
    /\ specRunsLabel = ""
    /\ \/ /\ uiPc = "uniqueTags"
          /\ specRuns \in SpecRunLists
          /\ testRun = NoTestRun
       \/ /\ uiPc = "testRunsStatus"
          /\ testRun \in TestRuns
          /\ specRuns = <<>>

UniqueTags ==
    /\ uiPc = "uniqueTags"
    /\ tags' = uniqueTags(specRuns)
    /\ uiPc' = "uniqueTags:returned"
    /\ UNCHANGED <<go, specRuns, testRun, statusMap, specRunsLabel>>

TestRunsStatus ==
    /\ uiPc = "testRunsStatus"
    /\ statusMap' = testRunsStatus(testRun)
    /\ uiPc' = "calculateSpecRuns"
    /\ UNCHANGED <<go, specRuns, tags, testRun, specRunsLabel>>

CalculateSpecRuns ==
    /\ uiPc = "calculateSpecRuns"
    /\ specRunsLabel' = calculateSpecRuns(testRun)
    /\ uiPc' = "calculateSpecRuns:returned"
    /\ UNCHANGED <<go, specRuns, tags, testRun, statusMap>>

NextUI ==
    \/ UniqueTags
    \/ TestRunsStatus
    \/ CalculateSpecRuns

SpecUI == InitUI /\ [][NextUI]_vars

(***************************************************************************)
(* C18: for every list of spec runs, uniqueTags returns a list in which no *)
(* two tags have the same id, which holds a tag for every tag id of the    *)
(* input and nothing else, in the order of first occurrence of each id     *)
(* (spec runs first to last, tags within a spec run first to last); of the *)
(* tags sharing an id the first one met is kept.                           *)
(***************************************************************************)
RECURSIVE AllTags(_)
AllTags(runs) == IF runs = <<>> THEN <<>> ELSE Head(runs).tags \o AllTags(Tail(runs))

\* the position at which an id is first met in the input
FirstMet(id) ==
    CHOOSE i \in DOMAIN AllTags(specRuns) :
        /\ AllTags(specRuns)[i].id = id
        /\ \A j \in 1..(i - 1) : AllTags(specRuns)[j].id # id

C18_UniqueTags ==
    uiPc = "uniqueTags:returned" =>
        /\ \A i, j \in DOMAIN tags : i # j => tags[i].id # tags[j].id
        /\ {tags[i].id : i \in DOMAIN tags} =
              {AllTags(specRuns)[i].id : i \in DOMAIN AllTags(specRuns)}
        /\ \A i \in DOMAIN tags : tags[i] = AllTags(specRuns)[FirstMet(tags[i].id)]
        /\ \A i, j \in DOMAIN tags :
              i < j => FirstMet(tags[i].id) < FirstMet(tags[j].id)

\* id 1 is met in both spec runs under two names, with id 2 in between
C18_Witness ==
    /\ uiPc = "uniqueTags:returned"
    /\ Len(specRuns) = 2
    /\ specRuns[1].tags = <<[id |-> 1, name |-> "smoke"], [id |-> 2, name |-> "api"]>>
    /\ specRuns[2].tags = <<[id |-> 1, name |-> "smoke-renamed"]>>
    /\ tags = <<[id |-> 1, name |-> "smoke"], [id |-> 2, name |-> "api"]>>

(***************************************************************************)
(* C19: for every test run, calculateSpecRuns returns "P/T" where P is the *)
(* passed count of testRunsStatus and T is the number of spec runs over    *)
(* all suite runs minus the skipped count of testRunsStatus, so that       *)
(* 0 <= P <= T; the map testRunsStatus returns has exactly the keys        *)
(* passed, failed and skipped, and their sum is at most the number of spec *)
(* runs, with equality exactly when every status is one of the three.      *)
(***************************************************************************)
RECURSIVE TotalSpecRuns(_)
TotalSpecRuns(suites) ==
    IF suites = <<>> THEN 0 ELSE Len(Head(suites).spec_runs) + TotalSpecRuns(Tail(suites))

EveryStatusCounted ==
    \A i \in DOMAIN testRun.suite_runs :
        \A j \in DOMAIN testRun.suite_runs[i].spec_runs :
            testRun.suite_runs[i].spec_runs[j].status \in {"passed", "failed", "skipped"}

C19_PassedOverRun ==
    uiPc = "calculateSpecRuns:returned" =>
        LET total == TotalSpecRuns(testRun.suite_runs)
            P == statusMap["passed"]
            T == total - statusMap["skipped"]
            sum == statusMap["passed"] + statusMap["failed"] + statusMap["skipped"]
        IN  /\ DOMAIN statusMap = {"passed", "failed", "skipped"}
            /\ specRunsLabel = ToString(P) \o "/" \o ToString(T)
            /\ 0 <= P /\ P <= T
            /\ sum <= total
            /\ sum = total <=> EveryStatusCounted

\* two suite runs, one spec run skipped and one pending: 1/3, sum below the total
C19_Witness ==
    /\ uiPc = "calculateSpecRuns:returned"
    /\ Len(testRun.suite_runs) = 2
    /\ TotalSpecRuns(testRun.suite_runs) = 4
    /\ statusMap = [k \in {"passed", "failed", "skipped"} |-> 1]
    /\ specRunsLabel = "1/3"

====
